---- MODULE Spec2Model ----
(***************************************************************************)
(* Model of stock_analyzer.c: one invocation of main() as a state machine. *)
(* main() is followed phase by phase (pc), the per-symbol loop one         *)
(* iteration at a time.  The cache file, the symbol list, the environment  *)
(* and the snapshot payload are inputs.                                    *)
(*                                                                         *)
(* Optional JSON members are sequences of length 0 (absent) or 1 (present).*)
(* Doubles are exact multiples of 1/4 (an Int counting quarters); the      *)
(* prices of the model make every quotient exact.  Prices are positive.    *)
(* The int values of the model are far from the limits of a 32-bit int;   *)
(* the comparator of the ranking is checked at a width of INT_BITS bits.   *)
(***************************************************************************)
EXTENDS Integers, Sequences, FiniteSets, TLC

VARIABLES
    pc,            \* position in main()
    exit_status,   \* value returned by main(), -1 while running
    exit_line,     \* source line of the return taken, 0 while running
    creds,         \* TRUE iff both APCA_* environment variables are set
    list_file,     \* the symbol list file
    cache_file,    \* previous_results.json on disk
    file0,         \* history: cache_file before the run
    universe,      \* char **universe (num_symbols = Len(universe))
    g_cache,       \* g_cache[0 .. g_cache_count-1]
    loaded,        \* history: g_cache as init_cache_from_file left it
    chunk,         \* the payload received (chunk.memory)
    est_time,      \* <<tm_hour, tm_min>> of est_time
    i,             \* loop index of the per-symbol loop (1-based)
    results,       \* results[0 .. num_results-1]
    ranked,        \* results after qsort
    report,        \* latest.html: <<>> or <<the rows written>>
    scp_calls,     \* number of times the scp command was run
    save_calls,    \* number of calls of save_cache_to_file
    curl,          \* CURL *curl: "unset", "null" or "handle"
    res,           \* CURLcode res: "unset", "ok" or "error"
    perform_calls, \* number of calls of curl_easy_perform
    gmt_time,      \* the instant time() returns, as the fields gmtime gives it
    timezone_abbr, \* char timezone_abbr[5]: "" until the clock has run
    premarket,     \* int premarket_time of the loop body
    scp_status,    \* what system("scp ...") returned: "unset", "ok" or "failed"
    last_saved,    \* history: the cache file as the last completed write left it
    invocation,    \* 1 in the first invocation, 2 in the one after a crash
    url_len        \* strlen(url_buffer), 0 before the buffer is filled

vars == <<pc, exit_status, exit_line, creds, list_file, cache_file, file0, universe,
          g_cache, loaded, chunk, est_time, i, results, ranked, report,
          scp_calls, save_calls, curl, res, perform_calls, gmt_time,
          timezone_abbr, premarket, scp_status, last_saved, invocation, url_len>>

----------------------------------------------------------------------------
(* Bounds of the model *)

MaxUniverse == 2        \* longest symbol list
MAX_SYMBOLS == 2        \* capacity of g_cache (15000 in the source)

Symbols == {"A", "B", "C"}

\* a file on disk: missing, not parseable as JSON, or a JSON object with its
\* members in order
MissingFile == [state |-> "missing", members |-> <<>>]
GarbageFile == [state |-> "garbage", members |-> <<>>]
JsonFile(m) == [state |-> "json", members |-> m]

\* chunk.memory: nothing received, bytes json_tokener_parse rejects (the empty
\* body included), or a JSON object keyed by symbol
NoPayload == [kind |-> "none", snapshots |-> <<>>]
GarbagePayload == [kind |-> "garbage", snapshots |-> <<>>]
JsonPayload(r) == [kind |-> "json", snapshots |-> r]

MIN_TRADES == 50

----------------------------------------------------------------------------
(* Optional values *)

Has(x) == x # <<>>
Val(x) == x[1]
Some(x) == <<x>>
None == <<>>

RECURSIVE SeqsUpTo(_, _)
SeqsUpTo(S, n) ==
    IF n = 0 THEN {<<>>}
    ELSE LET shorter == SeqsUpTo(S, n - 1)
         IN shorter \cup {Append(q, x) : q \in {r \in shorter : Len(r) = n - 1}, x \in S}

Range(q) == {q[k] : k \in 1..Len(q)}

----------------------------------------------------------------------------
(* Snapshots of the payload *)

Snap(lt, mb, db, pdb) ==
    [latestTrade |-> lt, minuteBar |-> mb, dailyBar |-> db, prevDailyBar |-> pdb]

Trade(t, p) == Some([t |-> t, p |-> p])
MinBar(n, v) == Some([n |-> n, v |-> v])
Bar(c) == Some([c |-> c])

\* complete snapshots: trades at and above the threshold, previous-day bar
\* present, absent, or present without a close
GoodSnaps ==
    {Snap(Trade(Some(1), Some(101)), MinBar(Some(n), Some(10)), Bar(Some(100)), pdb) :
        n \in {50, 51}, pdb \in {Bar(Some(200))}}
    \cup
    {Snap(Trade(Some(1), Some(101)), MinBar(Some(50), Some(10)), Bar(Some(100)), pdb) :
        pdb \in {None, Bar(None)}}

\* snapshots with one defect
BadSnaps ==
    {Snap(Trade(Some(1), Some(101)), None, Bar(Some(100)), Bar(Some(200))),
     Snap(Trade(Some(1), Some(101)), MinBar(None, Some(10)), Bar(Some(100)), Bar(Some(200))),
     Snap(Trade(Some(1), Some(101)), MinBar(Some(49), Some(10)), Bar(Some(100)), Bar(Some(200))),
     Snap(Trade(None, Some(101)), MinBar(Some(50), Some(10)), Bar(Some(100)), Bar(Some(200))),
     Snap(Trade(Some(1), None), MinBar(Some(50), Some(10)), Bar(Some(100)), Bar(Some(200))),
     Snap(Trade(Some(1), Some(101)), MinBar(Some(50), Some(10)), None, Bar(Some(200))),
     Snap(Trade(Some(1), Some(101)), MinBar(Some(50), Some(10)), Bar(None), Bar(Some(200))),
     Snap(Trade(Some(1), Some(101)), MinBar(Some(50), None), Bar(Some(100)), Bar(Some(200)))}

\* what the response holds under a symbol: nothing, or a snapshot
SnapshotValues == {None} \cup {Some(s) : s \in GoodSnaps \cup BadSnaps}

Responses(syms) == [syms -> SnapshotValues]

----------------------------------------------------------------------------
(* The cache file *)

Entry(s, g, v, t) == [symbol |-> s, gradient_recent |-> g, volume |-> v, trades |-> t]

\* the text json-c prints for a double that is a whole number of quarters
\* ("%.17g": sign, integer digits, decimals .0, .25, .5 or .75)
FormatDouble(q) ==
    LET mag == IF q < 0 THEN -q ELSE q
    IN [neg |-> q < 0, whole |-> mag \div 4, frac |-> (mag % 4) * 25]

\* mutant: the gradient is read back as an int, without its decimals
ParseDouble_truncates(t) ==
    LET mag == t.whole * 4
    IN IF t.neg THEN -mag ELSE mag

\* json_object_get_double of that text
ParseDouble(t) ==
    LET mag == t.whole * 4 + t.frac \div 25
    IN IF t.neg THEN -mag ELSE mag

\* the text json-c prints for an int: sign and digits
FormatInt(v) == [neg |-> v < 0, digits |-> IF v < 0 THEN -v ELSE v]

\* json_object_get_int of that text
ParseInt(t) == IF t.neg THEN -t.digits ELSE t.digits

\* the member save_cache_to_file adds for an entry of g_cache
Member(e) ==
    [symbol |-> e.symbol,
     gradient_recent |-> Some(FormatDouble(e.gradient_recent)),
     volume |-> Some(FormatInt(e.volume)),
     trades |-> Some(FormatInt(e.trades))]

\* the entry a previous run left for a symbol
OldEntry(s) == Entry(s, 8, 5, 70)

\* previous_results.json before the run: missing, unparseable, or an object
\* of one entry, of MAX_SYMBOLS entries, or of more than the cache takes
CacheFiles ==
    {MissingFile, GarbageFile} \cup
    {JsonFile(m) : m \in
        {<<Member(OldEntry("A"))>>,
         <<Member(OldEntry("B")), Member(OldEntry("C"))>>,
         <<Member(OldEntry("C")), Member(OldEntry("B")), Member(OldEntry("A"))>>}}

\* combined.lis: missing, or its lines (one valid token each)
ListFiles ==
    {[exists |-> FALSE, lines |-> <<>>]} \cup
    {[exists |-> TRUE, lines |-> l] : l \in SeqsUpTo(Symbols, MaxUniverse)}

\* struct tm as gmtime fills it: tm_mon 0..11, tm_mday 1..31, tm_wday 0..6
\* (0 is Sunday), tm_hour, tm_min
Tm(mon, mday, wday, hour, min) ==
    [tm_mon |-> mon, tm_mday |-> mday, tm_wday |-> wday, tm_hour |-> hour, tm_min |-> min]

\* the instants of the runs: 08:00 UTC on a Wednesday in July (04:00 EDT) and
\* 14:30 UTC on a Wednesday in January (09:30 EST)
GmtTimes == {Tm(6, 15, 3, 8, 0), Tm(0, 15, 3, 14, 30)}


----------------------------------------------------------------------------
(* Session clock *)

\* mutant: 09:30 is still pre-market
is_premarket_inclusive(tm) ==
    LET hour == tm[1]
        minute == tm[2]
    IN (hour >= 4 /\ hour < 9) \/ (hour = 9 /\ minute <= 30)

is_premarket(tm) ==
    LET hour == tm[1]
        minute == tm[2]
    IN (hour >= 4 /\ hour < 9) \/ (hour = 9 /\ minute < 30)

\* mutant: the first Sunday is taken for the second
second_sunday_first_week(tm) == 7 - ((tm.tm_wday + 7 - (tm.tm_mday % 7)) % 7)

second_sunday(tm) == 14 - ((tm.tm_wday + 7 - (tm.tm_mday % 7)) % 7)

first_sunday(tm) == 7 - ((tm.tm_wday + 7 - (tm.tm_mday % 7)) % 7)

is_dst(tm) ==
    IF tm.tm_mon > 2 /\ tm.tm_mon < 10 THEN 1
    ELSE IF tm.tm_mon = 2
         THEN (IF tm.tm_mday >= second_sunday(tm) THEN 1 ELSE 0)
    ELSE IF tm.tm_mon = 10
         THEN (IF tm.tm_mday < first_sunday(tm) THEN 1 ELSE 0)
    ELSE 0

\* hours subtracted from UTC
EasternOffset(tm) == IF is_dst(tm) = 1 THEN 4 ELSE 5

TimezoneAbbr(tm) == IF is_dst(tm) = 1 THEN "EDT" ELSE "EST"

\* <<tm_hour, tm_min>> of gmtime(gmt - offset * 3600)
EasternTime(tm) == <<(tm.tm_hour + 24 - EasternOffset(tm)) % 24, tm.tm_min>>

----------------------------------------------------------------------------
(* Observation cache *)

\* json-c keeps the members of an object in insertion order; adding a key
\* that is already there replaces its value in place
RECURSIVE json_object_object_add(_, _)
json_object_object_add(obj, e) ==
    IF obj = <<>> THEN <<e>>
    ELSE IF Head(obj).symbol = e.symbol THEN <<e>> \o Tail(obj)
    ELSE <<Head(obj)>> \o json_object_object_add(Tail(obj), e)

\* the loop of init_cache_from_file: while g_cache_count < MAX_SYMBOLS, a
\* member with the three fields is appended (strncpy keeps the symbols of the
\* model, which are shorter than MAX_SYMBOL_LENGTH)
RECURSIVE LoadEntries(_, _)
LoadEntries(members, cache) ==
    IF members = <<>> \/ ~(Len(cache) < MAX_SYMBOLS) THEN cache
    ELSE LET val == Head(members)
         IN IF Has(val.gradient_recent) /\ Has(val.volume) /\ Has(val.trades)
            THEN LoadEntries(Tail(members),
                             Append(cache, Entry(val.symbol,
                                                 ParseDouble(Val(val.gradient_recent)),
                                                 ParseInt(Val(val.volume)),
                                                 ParseInt(Val(val.trades)))))
            ELSE LoadEntries(Tail(members), cache)

init_cache_from_file(file) ==
    IF file.state = "missing" THEN <<>>
    ELSE IF file.state = "garbage" THEN <<>>
    ELSE LoadEntries(file.members, <<>>)

RECURSIVE SaveEntries(_, _)
SaveEntries(cache, json) ==
    IF cache = <<>> THEN json
    ELSE SaveEntries(Tail(cache), json_object_object_add(json, Member(Head(cache))))

\* mutant: the loop over g_cache starts at the second entry
save_cache_to_file_from_second(cache) ==
    JsonFile(SaveEntries(IF cache = <<>> THEN <<>> ELSE Tail(cache), <<>>))

\* the file save_cache_to_file writes when fopen succeeds
save_cache_to_file(cache) == JsonFile(SaveEntries(cache, <<>>))

\* index of the first entry of the cache for the symbol, 0 if none
FirstIndex(cache, symbol) ==
    IF \E k \in 1..Len(cache) : cache[k].symbol = symbol
    THEN CHOOSE k \in 1..Len(cache) :
            /\ cache[k].symbol = symbol
            /\ \A j \in 1..(k - 1) : cache[j].symbol # symbol
    ELSE 0

\* mutant: a new symbol is appended without the test of g_cache_count
update_cache_unchecked(cache, symbol, gradient_recent, volume, trades) ==
    LET k == FirstIndex(cache, symbol)
    IN IF k # 0
       THEN [cache EXCEPT ![k] = Entry(symbol, gradient_recent, volume, trades)]
       ELSE Append(cache, Entry(symbol, gradient_recent, volume, trades))

\* mutant: no search for the symbol, every update appends
update_cache_appends(cache, symbol, gradient_recent, volume, trades) ==
    IF Len(cache) < MAX_SYMBOLS
    THEN Append(cache, Entry(symbol, gradient_recent, volume, trades))
    ELSE cache

\* mutant: a full cache evicts its first entry for a new symbol
update_cache_evict(cache, symbol, gradient_recent, volume, trades) ==
    LET k == FirstIndex(cache, symbol)
    IN IF k # 0
       THEN [cache EXCEPT ![k] = Entry(symbol, gradient_recent, volume, trades)]
       ELSE IF Len(cache) < MAX_SYMBOLS
            THEN Append(cache, Entry(symbol, gradient_recent, volume, trades))
            ELSE [cache EXCEPT ![1] = Entry(symbol, gradient_recent, volume, trades)]

update_cache(cache, symbol, gradient_recent, volume, trades) ==
    LET k == FirstIndex(cache, symbol)
    IN IF k # 0
       THEN [cache EXCEPT ![k] = Entry(symbol, gradient_recent, volume, trades)]
       ELSE IF Len(cache) < MAX_SYMBOLS
            THEN Append(cache, Entry(symbol, gradient_recent, volume, trades))
            ELSE cache

\* mutant: a miss leaves the outputs at the first entry instead of zero
get_cached_values_stale_miss(cache, symbol) ==
    LET k == FirstIndex(cache, symbol)
        m == IF k # 0 THEN k ELSE 1
    IN IF cache # <<>>
       THEN [gradient_recent |-> cache[m].gradient_recent,
             volume |-> cache[m].volume,
             trades |-> cache[m].trades]
       ELSE [gradient_recent |-> 0, volume |-> 0, trades |-> 0]

get_cached_values(cache, symbol) ==
    LET k == FirstIndex(cache, symbol)
    IN IF k # 0
       THEN [gradient_recent |-> cache[k].gradient_recent,
             volume |-> cache[k].volume,
             trades |-> cache[k].trades]
       ELSE [gradient_recent |-> 0, volume |-> 0, trades |-> 0]

----------------------------------------------------------------------------
(* Symbol list *)

\* every line of the model's list holds one valid token; at most MAX_SYMBOLS
\* are counted and read.  <<>> stands for the NULL return.
read_symbol_list(file) ==
    IF ~file.exists THEN <<>>
    ELSE LET count == IF Len(file.lines) < MAX_SYMBOLS THEN Len(file.lines) ELSE MAX_SYMBOLS
         IN SubSeq(file.lines, 1, count)


----------------------------------------------------------------------------
(* Request URL *)

MAX_URL_LENGTH == 65536

\* strlen("https://data.alpaca.markets/v2/stocks/snapshots?symbols=")
UrlPrefixLength == 56

\* strlen(url_buffer) after the strcat of universe[i] and of the comma that
\* follows every symbol but the last (i is 1-based)
AppendSymbol(len, symbols, k) ==
    len + Len(symbols[k]) + (IF k < Len(symbols) THEN 1 ELSE 0)

\* the iterations lo..hi of the loop, in order, from a string of length len;
\* the range is halved so that a long list is evaluated at a small depth, and
\* the test of left (a length, never negative) has the first half evaluated
\* before the second
RECURSIVE AppendRange(_, _, _, _)
AppendRange(len, symbols, lo, hi) ==
    IF lo > hi THEN len
    ELSE IF lo = hi THEN AppendSymbol(len, symbols, lo)
    ELSE LET mid == (lo + hi) \div 2
             left == AppendRange(len, symbols, lo, mid)
         IN IF left >= 0 THEN AppendRange(left, symbols, mid + 1, hi) ELSE left

\* strlen(url_buffer) after the loop over the universe
UrlLength(symbols) == AppendRange(UrlPrefixLength, symbols, 1, Len(symbols))

\* the URL and its terminating NUL do not fit the MAX_URL_LENGTH bytes of
\* url_buffer: strcat has written past the end of the buffer
UrlOverflows(symbols) == UrlLength(symbols) + 1 > MAX_URL_LENGTH

----------------------------------------------------------------------------
(* Metric engine *)

\* ((a - b) / b) * 100.0, in quarters
PercentOf(a, b) == ((a - b) * 400) \div b

\* x / 2.0, in quarters
Halve(x) == x \div 2

\* mutant: the test of the threshold is gone
BelowThreshold_never(minute_trades) == FALSE

\* mutant: the threshold is exclusive
BelowThreshold_exclusive(minute_trades) == minute_trades <= MIN_TRADES

BelowThreshold(minute_trades) == minute_trades < MIN_TRADES

\* 1-based number of the first `continue` of the loop body a snapshot value
\* takes, 0 if it takes none
SkipPoint(sv, premarket_time) ==
    IF ~Has(sv) THEN 1
    ELSE LET snapshot == Val(sv) IN
    IF ~Has(snapshot.latestTrade) \/ ~Has(snapshot.minuteBar) THEN 2
    ELSE LET latest_trade == Val(snapshot.latestTrade)
             minute_bar == Val(snapshot.minuteBar) IN
    IF ~Has(minute_bar.n) THEN 3
    ELSE IF BelowThreshold(Val(minute_bar.n)) THEN 4
    ELSE IF ~Has(latest_trade.t) THEN 5
    ELSE IF ~Has(latest_trade.p) THEN 6
    ELSE IF ~Has(snapshot.dailyBar) THEN 7
    ELSE IF ~Has(Val(snapshot.dailyBar).c) THEN 8
    ELSE IF ~Has(minute_bar.v) THEN 9
    ELSE IF premarket_time THEN 0
    ELSE IF ~Has(snapshot.prevDailyBar) THEN 10
    ELSE IF ~Has(Val(snapshot.prevDailyBar).c) THEN 11
    ELSE 0

\* mutant: the current-day close is the reference in every session
reference_price_day_close(snapshot, premarket_time) ==
    Val(Val(snapshot.dailyBar).c)

reference_price(snapshot, premarket_time) ==
    IF premarket_time
    THEN Val(Val(snapshot.dailyBar).c)
    ELSE Val(Val(snapshot.prevDailyBar).c)

\* the body of the loop from the metrics to update_cache, for a snapshot that
\* took no `continue`: the row written to results[num_results] and the cache
\* after update_cache
EmitRow(cache, symbol, snapshot, premarket_time) ==
    LET price_now == Val(Val(snapshot.latestTrade).p)
        day_close == Val(Val(snapshot.dailyBar).c)
        minute_trades == Val(Val(snapshot.minuteBar).n)
        minute_volume == Val(Val(snapshot.minuteBar).v)
        ref == reference_price(snapshot, premarket_time)
        percent == PercentOf(price_now, ref)
        gradient_full == Halve(percent)
        gradient_recent == PercentOf(price_now, day_close)
        prev == get_cached_values(cache, symbol)
        row == [symbol |-> symbol,
                price |-> price_now,
                day_close |-> day_close,
                percent |-> percent,
                gradient_full |-> gradient_full,
                gradient_recent |-> gradient_recent,
                gradient_change |-> gradient_recent - prev.gradient_recent,
                volume |-> minute_volume,
                volume_change |-> minute_volume - prev.volume,
                trades |-> minute_trades,
                trades_change |-> minute_trades - prev.trades]
    IN [row |-> row,
        cache |-> update_cache(cache, symbol, gradient_recent, minute_volume, minute_trades)]

----------------------------------------------------------------------------
(* Ranker *)

\* width of int in the model (32 in the build)
INT_BITS == 8

INT_MAX == 2^(INT_BITS - 1) - 1
INT_MIN == -INT_MAX - 1

\* the values the comparator can return: the difference when it is an int;
\* a signed subtraction that overflows is undefined behaviour and can return
\* any int
cmp_stocks_by_trades(a, b) ==
    IF (b.trades - a.trades) \in INT_MIN..INT_MAX
    THEN {b.trades - a.trades}
    ELSE INT_MIN..INT_MAX

\* qsort leaves the order of elements that compare equal unspecified: every
\* arrangement of the rows that is ordered by the comparator is an outcome
QsortOutcomes(rows) ==
    {q \in {[k \in 1..Len(rows) |-> rows[p[k]]] : p \in Permutations(1..Len(rows))} :
        \A k \in 1..(Len(rows) - 1) :
            \E c \in cmp_stocks_by_trades(q[k], q[k + 1]) : c <= 0}


----------------------------------------------------------------------------
(* main() *)

Init ==
    /\ pc = "start"
    /\ exit_status = -1
    /\ exit_line = 0
    /\ creds \in BOOLEAN
    /\ list_file \in ListFiles
    /\ cache_file \in CacheFiles
    /\ file0 = cache_file
    /\ universe = <<>>
    /\ g_cache = <<>>
    /\ loaded = <<>>
    /\ chunk = NoPayload
    /\ est_time = <<0, 0>>
    /\ i = 1
    /\ results = <<>>
    /\ ranked = <<>>
    /\ report = None
    /\ scp_calls = 0
    /\ save_calls = 0
    /\ curl = "unset"
    /\ res = "unset"
    /\ perform_calls = 0
    /\ gmt_time \in GmtTimes
    /\ timezone_abbr = ""
    /\ premarket = FALSE
    /\ scp_status = "unset"
    /\ last_saved = cache_file
    /\ invocation = 1
    /\ url_len = 0

\* `return status;` at a line of main()
Return(status, line) ==
    /\ pc' = "done"
    /\ exit_status' = status
    /\ exit_line' = line

Running == UNCHANGED <<exit_status, exit_line>>

\* getenv of the two keys
CheckCredentials ==
    /\ pc = "start"
    /\ IF ~creds
       THEN Return(1, 534)
       ELSE pc' = "read_list" /\ Running
    /\ UNCHANGED <<creds, list_file, cache_file, file0, universe, g_cache, loaded,
                   chunk, est_time, i, results, ranked, report, scp_calls,
                   save_calls, curl, res, perform_calls>>
    /\ UNCHANGED <<url_len, gmt_time, timezone_abbr, premarket, scp_status, last_saved, invocation>>

\* mutant: the NULL return of read_symbol_list is not checked
ReadSymbolList_unchecked ==
    /\ pc = "read_list"
    /\ universe' = read_symbol_list(list_file)
    /\ pc' = "load"
    /\ Running
    /\ UNCHANGED <<creds, list_file, cache_file, file0, g_cache, loaded,
                   chunk, est_time, i, results, ranked, report, scp_calls,
                   save_calls, curl, res, perform_calls>>
    /\ UNCHANGED <<url_len, gmt_time, timezone_abbr, premarket, scp_status, last_saved, invocation>>

ReadSymbolList ==
    /\ pc = "read_list"
    /\ LET u == read_symbol_list(list_file)
       IN IF u = <<>>
          THEN Return(1, 542) /\ UNCHANGED universe
          ELSE pc' = "load" /\ universe' = u /\ Running
    /\ UNCHANGED <<creds, list_file, cache_file, file0, g_cache, loaded,
                   chunk, est_time, i, results, ranked, report, scp_calls,
                   save_calls, curl, res, perform_calls>>
    /\ UNCHANGED <<url_len, gmt_time, timezone_abbr, premarket, scp_status, last_saved, invocation>>

InitCache ==
    /\ pc = "load"
    /\ g_cache' = init_cache_from_file(cache_file)
    /\ loaded' = g_cache'
    /\ pc' = "curl_init"
    /\ UNCHANGED <<exit_status, exit_line, creds, list_file, cache_file, file0, universe,
                   chunk, est_time, i, results, ranked, report, scp_calls,
                   save_calls, curl, res, perform_calls>>
    /\ UNCHANGED <<url_len, gmt_time, timezone_abbr, premarket, scp_status, last_saved, invocation>>

\* curl_easy_init: with no handle main() falls through to the common cleanup
\* and its return 0
CurlInit ==
    /\ pc = "curl_init"
    /\ \E handle \in BOOLEAN :
          IF handle
          THEN curl' = "handle" /\ pc' = "perform" /\ Running
          ELSE curl' = "null" /\ Return(0, 800)
    /\ UNCHANGED <<creds, list_file, cache_file, file0, universe, g_cache, loaded,
                   chunk, est_time, i, results, ranked, report, scp_calls,
                   save_calls, res, perform_calls>>
    /\ UNCHANGED <<url_len, gmt_time, timezone_abbr, premarket, scp_status, last_saved, invocation>>

\* the URL buffer, the request and curl_easy_perform.  A strcat past the end
\* of url_buffer is undefined behaviour: the process is killed, or it goes on
\* with the heap behind the buffer overwritten
Perform ==
    /\ pc = "perform"
    /\ \/ \* malloc(MAX_URL_LENGTH) fails
          /\ Return(1, 563)
          /\ UNCHANGED <<res, perform_calls, chunk, url_len>>
       \/ \* the transfer fails
          /\ url_len' = UrlLength(universe)
          /\ res' = "error"
          /\ perform_calls' = perform_calls + 1
          /\ IF UrlOverflows(universe)
             THEN Return(1, 603) \/ (pc' = "killed" /\ Running)
             ELSE Return(1, 603)
          /\ UNCHANGED chunk
       \/ \* the transfer delivers a body
          /\ url_len' = UrlLength(universe)
          /\ res' = "ok"
          /\ perform_calls' = perform_calls + 1
          /\ chunk' \in {GarbagePayload} \cup {JsonPayload(r) : r \in Responses(Range(universe))}
          /\ pc' \in IF UrlOverflows(universe) THEN {"clock", "killed"} ELSE {"clock"}
          /\ Running
    /\ UNCHANGED <<creds, list_file, cache_file, file0, universe, g_cache, loaded,
                   est_time, i, results, ranked, report, scp_calls,
                   save_calls, curl>>
    /\ UNCHANGED <<gmt_time, timezone_abbr, premarket, scp_status, last_saved, invocation>>

\* the Eastern wall clock and the allocation of results
Clock ==
    /\ pc = "clock"
    /\ est_time' = EasternTime(gmt_time)
    /\ timezone_abbr' = TimezoneAbbr(gmt_time)
    /\ \/ pc' = "parse" /\ Running
       \/ Return(1, 652)       \* malloc of results fails
    /\ UNCHANGED <<creds, list_file, cache_file, file0, universe, g_cache, loaded,
                   chunk, i, results, ranked, report, scp_calls,
                   save_calls, curl, res, perform_calls>>
    /\ UNCHANGED <<url_len, gmt_time, premarket, scp_status, last_saved, invocation>>

\* mutant: a payload that does not parse falls through to the save
ParseResponse_falls_through ==
    /\ pc = "parse"
    /\ IF chunk.kind # "json"
       THEN pc' = "save" /\ Running
       ELSE pc' = "loop" /\ Running
    /\ UNCHANGED <<creds, list_file, cache_file, file0, universe, g_cache, loaded,
                   chunk, est_time, i, results, ranked, report, scp_calls,
                   save_calls, curl, res, perform_calls>>
    /\ UNCHANGED <<url_len, gmt_time, timezone_abbr, premarket, scp_status, last_saved, invocation>>

\* json_tokener_parse(chunk.memory)
ParseResponse ==
    /\ pc = "parse"
    /\ IF chunk.kind # "json"
       THEN Return(1, 665)
       ELSE pc' = "loop" /\ Running
    /\ UNCHANGED <<creds, list_file, cache_file, file0, universe, g_cache, loaded,
                   chunk, est_time, i, results, ranked, report, scp_calls,
                   save_calls, curl, res, perform_calls>>
    /\ UNCHANGED <<url_len, gmt_time, timezone_abbr, premarket, scp_status, last_saved, invocation>>

\* mutant: the cache is saved inside the loop, after each row
LoopStep_saves_each_row ==
    /\ pc = "loop"
    /\ i <= Len(universe)
    /\ LET symbol == universe[i]
           sv == chunk.snapshots[symbol]
           skip == SkipPoint(sv, is_premarket(est_time))
       IN /\ IF skip # 0
             THEN UNCHANGED <<results, g_cache, save_calls, cache_file, last_saved>>
             ELSE LET out == EmitRow(g_cache, symbol, Val(sv), is_premarket(est_time))
                  IN /\ results' = Append(results, out.row)
                     /\ g_cache' = out.cache
                     /\ save_calls' = save_calls + 1
                     /\ cache_file' = save_cache_to_file(out.cache)
                     /\ last_saved' = cache_file'
          /\ premarket' = IF skip \in {0, 10, 11}
                          THEN is_premarket(est_time)
                          ELSE premarket
    /\ i' = i + 1
    /\ UNCHANGED <<pc, exit_status, exit_line, creds, list_file, file0, universe,
                   loaded, chunk, est_time, ranked, report, scp_calls,
                   curl, res, perform_calls>>
    /\ UNCHANGED <<url_len, gmt_time, timezone_abbr, scp_status, invocation>>

\* mutant: a skip leaves the loop (break for continue)
LoopStep_break_on_skip ==
    /\ pc = "loop"
    /\ i <= Len(universe)
    /\ LET symbol == universe[i]
           sv == chunk.snapshots[symbol]
           skip == SkipPoint(sv, is_premarket(est_time))
       IN /\ IF skip # 0
             THEN /\ UNCHANGED <<results, g_cache>>
                  /\ i' = Len(universe) + 1
             ELSE LET out == EmitRow(g_cache, symbol, Val(sv), is_premarket(est_time))
                  IN /\ results' = Append(results, out.row)
                     /\ g_cache' = out.cache
                     /\ i' = i + 1
          /\ premarket' = IF skip \in {0, 10, 11}
                          THEN is_premarket(est_time)
                          ELSE premarket
    /\ UNCHANGED <<pc, exit_status, exit_line, creds, list_file, cache_file, file0, universe,
                   loaded, chunk, est_time, ranked, report, scp_calls,
                   save_calls, curl, res, perform_calls>>
    /\ UNCHANGED <<url_len, gmt_time, timezone_abbr, scp_status, last_saved, invocation>>

\* one iteration of the per-symbol loop
LoopStep ==
    /\ pc = "loop"
    /\ i <= Len(universe)
    /\ LET symbol == universe[i]
           sv == chunk.snapshots[symbol]
           skip == SkipPoint(sv, is_premarket(est_time))
       IN /\ IF skip # 0
             THEN UNCHANGED <<results, g_cache>>
             ELSE LET out == EmitRow(g_cache, symbol, Val(sv), is_premarket(est_time))
                  IN /\ results' = Append(results, out.row)
                     /\ g_cache' = out.cache
          \* line 717 is reached unless an earlier `continue` was taken
          /\ premarket' = IF skip \in {0, 10, 11}
                          THEN is_premarket(est_time)
                          ELSE premarket
    /\ i' = i + 1
    /\ UNCHANGED <<pc, exit_status, exit_line, creds, list_file, cache_file, file0, universe,
                   loaded, chunk, est_time, ranked, report, scp_calls,
                   save_calls, curl, res, perform_calls>>
    /\ UNCHANGED <<url_len, gmt_time, timezone_abbr, scp_status, last_saved, invocation>>

\* the loop is over: rank and report if there are results
LoopEnd ==
    /\ pc = "loop"
    /\ i > Len(universe)
    /\ IF Len(results) > 0
       THEN pc' = "rank" /\ Running
       ELSE Return(0, 800)
    /\ UNCHANGED <<creds, list_file, cache_file, file0, universe, g_cache, loaded,
                   chunk, est_time, i, results, ranked, report, scp_calls,
                   save_calls, curl, res, perform_calls>>
    /\ UNCHANGED <<url_len, gmt_time, timezone_abbr, premarket, scp_status, last_saved, invocation>>

\* mutant: a failed delivery ends the run with status 1
RankAndReport_delivery_fatal ==
    /\ pc = "rank"
    /\ ranked' \in QsortOutcomes(results)
    /\ \/ /\ report' = Some(ranked')
          /\ scp_calls' = scp_calls + 1
          /\ \/ scp_status' = "ok" /\ pc' = "save" /\ Running
             \/ scp_status' = "failed" /\ Return(1, 779)
       \/ /\ UNCHANGED <<report, scp_calls, scp_status>>
          /\ pc' = "save"
          /\ Running
    /\ UNCHANGED <<creds, list_file, cache_file, file0, universe,
                   g_cache, loaded, chunk, est_time, i, results,
                   save_calls, curl, res, perform_calls>>
    /\ UNCHANGED <<url_len, gmt_time, timezone_abbr, premarket, last_saved, invocation>>

\* qsort, generate_html, latest.html and its delivery
RankAndReport ==
    /\ pc = "rank"
    /\ ranked' \in QsortOutcomes(results)
    /\ \/ \* latest.html is written and scp is run (a failure is only logged)
          /\ report' = Some(ranked')
          /\ scp_calls' = scp_calls + 1
          /\ scp_status' \in {"ok", "failed"}
       \/ \* fopen of latest.html fails
          /\ UNCHANGED <<report, scp_calls, scp_status>>
    /\ pc' = "save"
    /\ UNCHANGED <<exit_status, exit_line, creds, list_file, cache_file, file0, universe,
                   g_cache, loaded, chunk, est_time, i, results,
                   save_calls, curl, res, perform_calls>>
    /\ UNCHANGED <<url_len, gmt_time, timezone_abbr, premarket, last_saved, invocation>>

\* save_cache_to_file and the return 0
Save ==
    /\ pc = "save"
    /\ save_calls' = save_calls + 1
    /\ \/ cache_file' = save_cache_to_file(g_cache) /\ last_saved' = cache_file'
       \/ UNCHANGED <<cache_file, last_saved>>      \* fopen for writing fails
    /\ Return(0, 800)
    /\ UNCHANGED <<creds, list_file, file0, universe, g_cache, loaded,
                   chunk, est_time, i, results, ranked, report, scp_calls,
                   curl, res, perform_calls>>
    /\ UNCHANGED <<url_len, gmt_time, timezone_abbr, premarket, scp_status, invocation>>

Next ==
    \/ CheckCredentials
    \/ ReadSymbolList
    \/ InitCache
    \/ CurlInit
    \/ Perform
    \/ Clock
    \/ ParseResponse
    \/ LoopStep
    \/ LoopEnd
    \/ RankAndReport
    \/ Save

Spec == Init /\ [][Next]_vars


----------------------------------------------------------------------------
(* Vocabulary of the properties *)

Rows == 1..Len(results)

HasRow(s) == \E k \in Rows : results[k].symbol = s

HasEntry(cache, s) == \E j \in 1..Len(cache) : cache[j].symbol = s

EntriesFor(cache, s) == SelectSeq(cache, LAMBDA e : e.symbol = s)

\* minutes since midnight of est_time lie in [04:00, 09:30)
PremarketNow == (60 * est_time[1] + est_time[2]) \in (240..569)

\* the per-symbol loop has processed the last symbol of the universe
LoopOver ==
    /\ chunk.kind = "json"
    /\ i > Len(universe)
    /\ pc \in {"loop", "rank", "save", "done"}

\* the snapshot value the payload holds for a symbol of the universe
SnapOf(s) == chunk.snapshots[s]

\* a printed number denotes q quarters: 100 * whole + frac hundredths
TextIsDouble(t, q) ==
    /\ t.neg <=> q < 0
    /\ 100 * t.whole + t.frac = 25 * (IF q < 0 THEN -q ELSE q)

TextIsInt(t, v) ==
    /\ t.neg <=> v < 0
    /\ t.digits = (IF v < 0 THEN -v ELSE v)

\* a member of the cache file is the cache entry e
Denotes(m, e) ==
    /\ m.symbol = e.symbol
    /\ Has(m.gradient_recent) /\ TextIsDouble(Val(m.gradient_recent), e.gradient_recent)
    /\ Has(m.volume) /\ TextIsInt(Val(m.volume), e.volume)
    /\ Has(m.trades) /\ TextIsInt(Val(m.trades), e.trades)

\* the file holds exactly the entries of the cache, in order
FileIs(file, cache) ==
    /\ file.state = "json"
    /\ Len(file.members) = Len(cache)
    /\ \A k \in 1..Len(cache) : Denotes(file.members[k], cache[k])

----------------------------------------------------------------------------
(* C1: every result row of a symbol that has an entry E in the cache as    *)
(* loaded at the start of the run has gradient_change = gradient_recent -  *)
(* E.gradient_recent, volume_change = volume - E.volume and trades_change  *)
(* = trades - E.trades: the deltas come from the loaded value, never from  *)
(* a value written by this run.                                            *)
C1_DeltasAgainstLoadedEntry ==
    \A k \in Rows : \A j \in 1..Len(loaded) :
        loaded[j].symbol = results[k].symbol =>
            /\ results[k].gradient_change = results[k].gradient_recent - loaded[j].gradient_recent
            /\ results[k].volume_change = results[k].volume - loaded[j].volume
            /\ results[k].trades_change = results[k].trades - loaded[j].trades

(* C2: a row emitted for a symbol that has no entry in the cache when it   *)
(* is processed has gradient_change = gradient_recent, volume_change =     *)
(* volume and trades_change = trades.                                      *)
C2_ZeroBaselineOnMiss ==
    [][Len(results') = Len(results) + 1 =>
        LET r == results'[Len(results')]
        IN ~HasEntry(g_cache, r.symbol) =>
              /\ r.gradient_change = r.gradient_recent
              /\ r.volume_change = r.volume
              /\ r.trades_change = r.trades]_vars

\* a row was emitted for a symbol that was in the cache neither at load nor
\* through an earlier row of the run, next to a cache that was not empty
C2_Witness ==
    \E k \in Rows :
        /\ ~HasEntry(loaded, results[k].symbol)
        /\ \A m \in 1..(k - 1) : results[m].symbol # results[k].symbol
        /\ loaded # <<>>
        /\ results[k].gradient_change = results[k].gradient_recent
        /\ results[k].gradient_recent # 0

(* C3: after every successful metric computation for a symbol the cache    *)
(* holds an entry for it equal to {gradient_recent, minute_volume,         *)
(* minute_trades} of that computation, whatever the cache held before,     *)
(* a cache holding MAX_SYMBOLS entries of other symbols included.          *)
C3_CacheHoldsComputedEntry ==
    \A k \in Rows :
        (\A m \in (k + 1)..Len(results) : results[m].symbol # results[k].symbol) =>
            \E j \in 1..Len(g_cache) :
                g_cache[j] = Entry(results[k].symbol, results[k].gradient_recent,
                                   results[k].volume, results[k].trades)

\* the skips the claim C4 names: absent from the response, below the trade
\* threshold, outside pre-market with no previous-day bar
NamedSkip(s) ==
    \/ ~Has(SnapOf(s))
    \/ /\ Has(SnapOf(s))
       /\ Has(Val(SnapOf(s)).minuteBar)
       /\ Has(Val(Val(SnapOf(s)).minuteBar).n)
       /\ Val(Val(Val(SnapOf(s)).minuteBar).n) < 50
    \/ /\ Has(SnapOf(s))
       /\ ~PremarketNow
       /\ ~Has(Val(SnapOf(s)).prevDailyBar)

(* C4: a symbol that is skipped in a run produces no result row, and its   *)
(* cache entry after the per-symbol loop is the one that was loaded; a     *)
(* symbol with no entry still has none.                                    *)
C4_SkipLeavesCacheEntry ==
    LoopOver =>
        \A s \in Range(universe) :
            /\ NamedSkip(s) => ~HasRow(s)
            /\ ~HasRow(s) => EntriesFor(g_cache, s) = EntriesFor(loaded, s)

\* the loop is over, a symbol with a loaded entry was skipped and another
\* symbol's row went into the cache
C4_Witness ==
    /\ LoopOver
    /\ pc = "done"
    /\ \E s \in Range(universe) :
          /\ NamedSkip(s)
          /\ HasEntry(loaded, s)
          /\ \E k \in Rows : results[k].symbol # s /\ g_cache # loaded

(* C5: in pre-market the reference price is the current-day bar close, so  *)
(* percent = gradient_recent and gradient_full = percent / 2, and the      *)
(* previous-day bar has no effect on whether a symbol is emitted; outside  *)
(* pre-market the reference price is the previous-day bar close, and a     *)
(* symbol without prevDailyBar or prevDailyBar.c is skipped.               *)
C5_ReferencePrice ==
    chunk.kind = "json" =>
        /\ \A k \in Rows :
              LET r == results[k]
                  snapshot == Val(SnapOf(r.symbol))
              IN IF PremarketNow
                 THEN /\ r.percent * r.day_close = (r.price - r.day_close) * 400
                      /\ r.day_close = Val(Val(snapshot.dailyBar).c)
                      /\ r.percent = r.gradient_recent
                      /\ 2 * r.gradient_full = r.percent
                 ELSE /\ Has(snapshot.prevDailyBar)
                      /\ Has(Val(snapshot.prevDailyBar).c)
                      /\ LET prev_c == Val(Val(snapshot.prevDailyBar).c)
                         IN r.percent * prev_c = (r.price - prev_c) * 400
        /\ (LoopOver /\ PremarketNow) =>
              \A s, t \in Range(universe) :
                  (/\ Has(SnapOf(s))
                   /\ Has(SnapOf(t))
                   /\ [Val(SnapOf(s)) EXCEPT !.prevDailyBar = None]
                        = [Val(SnapOf(t)) EXCEPT !.prevDailyBar = None])
                  => (HasRow(s) <=> HasRow(t))
        /\ (LoopOver /\ ~PremarketNow) =>
              \A s \in Range(universe) :
                  (Has(SnapOf(s)) /\
                     (~Has(Val(SnapOf(s)).prevDailyBar)
                        \/ ~Has(Val(Val(SnapOf(s)).prevDailyBar).c)))
                  => ~HasRow(s)

\* pre-market: a symbol without a previous-day bar and one with it are both
\* emitted
C5_Witness ==
    /\ LoopOver
    /\ PremarketNow
    /\ \E k, m \in Rows :
          /\ ~Has(Val(SnapOf(results[k].symbol)).prevDailyBar)
          /\ Has(Val(SnapOf(results[m].symbol)).prevDailyBar)
          /\ results[k].percent = 4


\* every field the loop reads besides minuteBar.n is there (the previous-day
\* close only where the session needs it)
OtherFieldsPresent(snapshot) ==
    /\ Has(snapshot.latestTrade)
    /\ Has(Val(snapshot.latestTrade).t)
    /\ Has(Val(snapshot.latestTrade).p)
    /\ Has(snapshot.minuteBar)
    /\ Has(Val(snapshot.minuteBar).v)
    /\ Has(snapshot.dailyBar)
    /\ Has(Val(snapshot.dailyBar).c)
    /\ \/ PremarketNow
       \/ Has(snapshot.prevDailyBar) /\ Has(Val(snapshot.prevDailyBar).c)

\* minuteBar.n of a snapshot is there and satisfies Test
TradesAre(sv, Test(_)) ==
    /\ Has(sv)
    /\ Has(Val(sv).minuteBar)
    /\ Has(Val(Val(sv).minuteBar).n)
    /\ Test(Val(Val(Val(sv).minuteBar).n))

(* C6: every result row has trades >= 50; a symbol whose minuteBar.n is 49 *)
(* or less is never in the results, and one whose minuteBar.n is exactly   *)
(* 50, all other required fields present, is in the results.               *)
C6_TradeThreshold ==
    /\ \A k \in Rows : results[k].trades >= 50
    /\ chunk.kind = "json" =>
          \A s \in Range(universe) :
              TradesAre(SnapOf(s), LAMBDA n : n <= 49) => ~HasRow(s)
    /\ LoopOver =>
          \A s \in Range(universe) :
              (TradesAre(SnapOf(s), LAMBDA n : n = 50) /\ OtherFieldsPresent(Val(SnapOf(s))))
                  => \E k \in Rows : results[k].symbol = s /\ results[k].trades = 50

\* after the loop: one symbol with 49 trades has no row, another with 50 has
C6_Witness ==
    /\ LoopOver
    /\ \E s, t \in Range(universe) :
          /\ TradesAre(SnapOf(s), LAMBDA n : n = 49)
          /\ OtherFieldsPresent(Val(SnapOf(s)))
          /\ ~HasRow(s)
          /\ TradesAre(SnapOf(t), LAMBDA n : n = 50)
          /\ HasRow(t)

\* insertion of a row behind every row with at least as many trades
RECURSIVE InsertByTrades(_, _)
InsertByTrades(sorted, r) ==
    IF sorted = <<>> THEN <<r>>
    ELSE IF Head(sorted).trades >= r.trades
         THEN <<Head(sorted)>> \o InsertByTrades(Tail(sorted), r)
         ELSE <<r>> \o sorted

\* the rows in descending order of trades, ties in their order in rows
RECURSIVE StableByTrades(_)
StableByTrades(rows) ==
    IF rows = <<>> THEN <<>>
    ELSE InsertByTrades(StableByTrades(SubSeq(rows, 1, Len(rows) - 1)), rows[Len(rows)])

(* C7: the ranked output is the result rows in descending order of trades, *)
(* rows with equal trades in the order the per-symbol loop emitted them    *)
(* (a stable sort), for every input.                                       *)
C7_RankingStable ==
    pc \in {"save", "done"} /\ results # <<>> => ranked = StableByTrades(results)

(* C8: when the whole payload fails to parse, the run produces no result   *)
(* rows and no report, never calls save, leaves the cache file as it was   *)
(* before the run, and exits with a non-zero status.                       *)
C8_ParseFailureIsFatal ==
    chunk.kind = "garbage" =>
        /\ results = <<>>
        /\ ranked = <<>>
        /\ report = None
        /\ scp_calls = 0
        /\ save_calls = 0
        /\ cache_file = file0
        /\ pc \in {"clock", "parse", "done"}
        /\ pc = "done" => exit_status # 0

\* the run ended at the return of the failed json_tokener_parse, after a load
\* that did not take the whole file
C8_Witness ==
    /\ pc = "done"
    /\ exit_line = 665
    /\ chunk.kind = "garbage"
    /\ Len(loaded) # Len(file0.members)

(* C9: every run in which the fetch delivers no payload (the transfer      *)
(* fails or the transport client cannot be set up) ends with a non-zero    *)
(* exit status, no report and the cache file unchanged.                    *)
C9_FetchFailureIsFatal ==
    (pc = "done" /\ (curl = "null" \/ res = "error")) =>
        /\ exit_status # 0
        /\ report = None
        /\ cache_file = file0

(* C10: save_cache_to_file is invoked at most once in a run, only after    *)
(* the per-symbol loop has processed the last symbol of the universe; the  *)
(* cache is not updated after the save, so the file written is the cache   *)
(* with every update of the run.                                           *)
C10_SaveOnceAfterLoop ==
    /\ [](save_calls <= 1)
    /\ [][save_calls' # save_calls =>
            /\ LoopOver
            /\ Len(results) > 0
            /\ cache_file' # cache_file => FileIs(cache_file', g_cache)]_vars
    /\ [][save_calls >= 1 => g_cache' = g_cache /\ results' = results]_vars

\* a run of two rows has saved a cache that differs from the one loaded
C10_Witness ==
    /\ pc = "done"
    /\ save_calls = 1
    /\ Len(results) = 2
    /\ FileIs(cache_file, g_cache)
    /\ g_cache # loaded

----------------------------------------------------------------------------
(* A crash inside save_cache_to_file, and the invocation after it *)

\* the process dies between fopen(.., "w"), which has truncated the file, and
\* fclose: the file is empty or holds a prefix of the text, which
\* json_tokener_parse rejects
CrashInSave ==
    /\ pc = "save"
    /\ invocation = 1
    /\ save_calls' = save_calls + 1
    /\ cache_file' = GarbageFile
    /\ pc' = "crashed"
    /\ UNCHANGED <<exit_status, exit_line, creds, list_file, file0, universe, g_cache,
                   loaded, chunk, est_time, i, results, ranked, report, scp_calls,
                   curl, res, perform_calls>>
    /\ UNCHANGED <<url_len, gmt_time, timezone_abbr, premarket, scp_status, last_saved, invocation>>

\* the program is started again: the files stay, the memory starts afresh
NextInvocation ==
    /\ pc = "crashed"
    /\ invocation' = 2
    /\ pc' = "start"
    /\ exit_status' = -1
    /\ exit_line' = 0
    /\ file0' = cache_file
    /\ universe' = <<>>
    /\ g_cache' = <<>>
    /\ loaded' = <<>>
    /\ chunk' = NoPayload
    /\ est_time' = <<0, 0>>
    /\ i' = 1
    /\ results' = <<>>
    /\ ranked' = <<>>
    /\ scp_calls' = 0
    /\ save_calls' = 0
    /\ curl' = "unset"
    /\ res' = "unset"
    /\ perform_calls' = 0
    /\ timezone_abbr' = ""
    /\ premarket' = FALSE
    /\ scp_status' = "unset"
    /\ url_len' = 0
    /\ UNCHANGED <<creds, list_file, cache_file, report, gmt_time, last_saved>>

\* runs with credentials, a list of one symbol and a cache file a previous
\* run saved
InitCrash ==
    /\ Init
    /\ creds
    /\ list_file.exists
    /\ Len(list_file.lines) = 1
    /\ cache_file.state = "json"

NextCrash ==
    \/ Next
    \/ CrashInSave
    \/ NextInvocation

SpecCrash == InitCrash /\ [][NextCrash]_vars

\* the invocation after the crash has loaded its cache
LoadedAfterCrash ==
    /\ invocation = 2
    /\ pc \notin {"start", "read_list", "load"}

(* C11: if an invocation crashes in the middle of save, the next           *)
(* invocation runs to completion and the cache it loads is no worse than   *)
(* the last successfully saved state: every entry of the last successfully *)
(* saved cache file (as far as the cache takes them) is in the cache it    *)
(* loads.                                                                  *)
C11_CrashKeepsLastSaved ==
    LoadedAfterCrash =>
        \A k \in 1..Len(last_saved.members) :
            k <= MAX_SYMBOLS =>
                \E j \in 1..Len(loaded) : Denotes(last_saved.members[k], loaded[j])

----------------------------------------------------------------------------
(* Save and load of the cache, as one run's save and the next run's load *)

\* entries of a cache: negative, fractional and whole gradients
RoundTripEntries ==
    {Entry(s, g, v, 70) : s \in Symbols, g \in {-5, 3, 8}, v \in {0, 10}}

\* g_cache before the save: any entries, a symbol twice included
RoundTripCaches == SeqsUpTo(RoundTripEntries, MAX_SYMBOLS)

InitRoundTrip ==
    /\ pc = "rt_save"
    /\ g_cache \in RoundTripCaches
    /\ cache_file = MissingFile
    /\ file0 = MissingFile
    /\ last_saved = MissingFile
    /\ loaded = <<>>
    /\ save_calls = 0
    /\ exit_status = -1
    /\ exit_line = 0
    /\ creds = TRUE
    /\ list_file = [exists |-> FALSE, lines |-> <<>>]
    /\ universe = <<>>
    /\ chunk = NoPayload
    /\ est_time = <<0, 0>>
    /\ i = 1
    /\ results = <<>>
    /\ ranked = <<>>
    /\ report = None
    /\ scp_calls = 0
    /\ curl = "unset"
    /\ res = "unset"
    /\ perform_calls = 0
    /\ gmt_time \in {Tm(6, 15, 3, 8, 0)}
    /\ timezone_abbr = ""
    /\ premarket = FALSE
    /\ scp_status = "unset"
    /\ invocation = 1
    /\ url_len = 0

\* save_cache_to_file(), fopen succeeding
RoundTripSave ==
    /\ pc \in {"rt_save", "rt_save_again"}
    /\ cache_file' = save_cache_to_file(g_cache)
    /\ last_saved' = cache_file'
    /\ save_calls' = save_calls + 1
    /\ pc' = IF pc = "rt_save" THEN "rt_load" ELSE "rt_done"
    /\ UNCHANGED <<exit_status, exit_line, creds, list_file, file0, universe, g_cache,
                   loaded, chunk, est_time, i, results, ranked, report, scp_calls,
                   curl, res, perform_calls>>
    /\ UNCHANGED <<url_len, gmt_time, timezone_abbr, premarket, scp_status, invocation>>

\* init_cache_from_file() of a fresh process (g_cache_count = 0)
RoundTripLoad ==
    /\ pc = "rt_load"
    /\ g_cache' = init_cache_from_file(cache_file)
    /\ loaded' = g_cache'
    /\ pc' = "rt_save_again"
    /\ UNCHANGED <<exit_status, exit_line, creds, list_file, cache_file, file0, universe,
                   chunk, est_time, i, results, ranked, report, scp_calls,
                   save_calls, curl, res, perform_calls>>
    /\ UNCHANGED <<url_len, gmt_time, timezone_abbr, premarket, scp_status, last_saved, invocation>>

NextRoundTrip ==
    \/ RoundTripSave
    \/ RoundTripLoad

SpecRoundTrip == InitRoundTrip /\ [][NextRoundTrip]_vars

\* no two entries of the cache have the same symbol
UniqueSymbols(cache) ==
    \A j, k \in 1..Len(cache) : cache[j].symbol = cache[k].symbol => j = k

(* C12: for every cache C with at most one entry per symbol, loading the   *)
(* file written by save(C) yields exactly the entries of C (same symbols,  *)
(* gradients, volumes and trades, in the same order), and saving the       *)
(* loaded cache writes the same file again: save(load(save(C))) = save(C). *)
C12_SaveLoadRoundTrip ==
    [][/\ (pc = "rt_load" /\ UniqueSymbols(g_cache)) => g_cache' = g_cache
       /\ pc = "rt_save_again" => cache_file' = cache_file]_vars

\* a cache of MAX_SYMBOLS entries, one with a negative fractional gradient,
\* went through save, load and save
C12_Witness ==
    /\ pc = "rt_done"
    /\ save_calls = 2
    /\ Len(loaded) = MAX_SYMBOLS
    /\ \E k \in 1..Len(loaded) : loaded[k].gradient_recent = -5
    /\ FileIs(cache_file, loaded)
    /\ g_cache = loaded

----------------------------------------------------------------------------
(* C13: in every reachable state the cache holds at most one entry per     *)
(* symbol, after the load and after every update_cache; an update for a    *)
(* symbol already in the cache overwrites its entry in place, the number   *)
(* of entries and the symbol at every position staying as they were.       *)
C13_OneEntryPerSymbol ==
    /\ [](UniqueSymbols(g_cache))
    /\ [][Len(results') = Len(results) + 1 =>
            LET r == results'[Len(results')]
            IN HasEntry(g_cache, r.symbol) =>
                  /\ Len(g_cache') = Len(g_cache)
                  /\ \A k \in 1..Len(g_cache) :
                        g_cache'[k] = IF g_cache[k].symbol = r.symbol
                                      THEN Entry(r.symbol, r.gradient_recent, r.volume, r.trades)
                                      ELSE g_cache[k]]_vars

\* a row of a symbol with a loaded entry has replaced that entry, next to
\* another entry that stayed
C13_Witness ==
    /\ LoopOver
    /\ Len(loaded) = 2
    /\ Len(g_cache) = 2
    /\ g_cache # loaded
    /\ \E k \in Rows : HasEntry(loaded, results[k].symbol)

----------------------------------------------------------------------------
\* the credentials are missing, or the symbol list is missing or has no line
ConfigError ==
    \/ ~creds
    \/ ~list_file.exists
    \/ list_file.lines = <<>>

(* C14: when the credentials are missing or the symbol universe is missing *)
(* or empty, the run issues no network request, does not load the cache    *)
(* file, writes neither the cache file nor a report, and its exit status   *)
(* is non-zero.                                                            *)
C14_ConfigErrorIsFatal ==
    ConfigError =>
        /\ pc \in {"start", "read_list", "done"}
        /\ curl = "unset"
        /\ perform_calls = 0
        /\ g_cache = <<>>
        /\ save_calls = 0
        /\ cache_file = file0
        /\ report = None
        /\ scp_calls = 0
        /\ pc = "done" => exit_status # 0

\* with credentials and a cache file on disk, a list file without a line ended
\* the run at the return after read_symbol_list
C14_Witness ==
    /\ pc = "done"
    /\ creds
    /\ list_file.exists
    /\ list_file.lines = <<>>
    /\ exit_line = 542
    /\ exit_status = 1
    /\ cache_file.state = "json"

----------------------------------------------------------------------------
(* C15: the report delivery (scp) is run at most once in a run and only    *)
(* when the run has result rows; when the delivery fails the run goes on:  *)
(* save_cache_to_file is called after it and the run exits with status 0.  *)
C15_DeliveryFailureNotFatal ==
    /\ scp_calls <= 1
    /\ scp_calls = 1 => Len(results) > 0 /\ report = Some(ranked)
    /\ scp_status # "unset" <=> scp_calls = 1
    /\ scp_status = "failed" => pc \in {"save", "done"}
    /\ (pc = "done" /\ scp_status = "failed") =>
          /\ save_calls = 1
          /\ exit_status = 0
          /\ exit_line = 800

\* the delivery failed, and the run ended with status 0 and the updated cache
\* on disk
C15_Witness ==
    /\ pc = "done"
    /\ scp_status = "failed"
    /\ scp_calls = 1
    /\ exit_status = 0
    /\ save_calls = 1
    /\ FileIs(cache_file, g_cache)
    /\ g_cache # loaded

----------------------------------------------------------------------------
(* C16: every run that ends with exit status 0 has called save and the     *)
(* cache file holds the in-memory cache as it stood after the last         *)
(* per-symbol update, a run in which every symbol was skipped included.    *)
C16_ExitZeroHasSaved ==
    (pc = "done" /\ exit_status = 0) =>
        /\ save_calls = 1
        /\ FileIs(cache_file, g_cache)

----------------------------------------------------------------------------
\* the members of a file, none for a file that is missing or does not parse
MembersOf(file) == IF file.state = "json" THEN file.members ELSE <<>>

\* the file holds the member
HoldsMember(file, m) ==
    \E k \in 1..Len(MembersOf(file)) : MembersOf(file)[k] = m

----------------------------------------------------------------------------
(* The session clock over the calendar and over the day *)

\* days of the month tm_mon (February of a leap year)
DaysIn(mon) == <<31, 29, 31, 30, 31, 30, 31, 31, 30, 31, 30, 31>>[mon + 1]

\* every day of the year on every weekday it falls on, at noon UTC, and
\* every minute of a day in July and of a day in January
ClockInstants ==
    {Tm(mon, mday, wday, 12, 0) : mon \in 0..11, mday \in 1..31, wday \in 0..6}
    \cup {Tm(6, 15, 3, hour, min) : hour \in 0..23, min \in 0..59}
    \cup {Tm(0, 15, 3, hour, min) : hour \in 0..23, min \in 0..59}

InitClock ==
    /\ pc = "clock"
    /\ gmt_time \in {tm \in ClockInstants : tm.tm_mday <= DaysIn(tm.tm_mon)}
    /\ exit_status = -1
    /\ exit_line = 0
    /\ creds = TRUE
    /\ list_file = [exists |-> TRUE, lines |-> <<"A">>]
    /\ cache_file = MissingFile
    /\ file0 = MissingFile
    /\ last_saved = MissingFile
    /\ universe = <<"A">>
    /\ g_cache = <<>>
    /\ loaded = <<>>
    /\ chunk = JsonPayload([s \in {"A"} |-> None])
    /\ est_time = <<0, 0>>
    /\ i = 1
    /\ results = <<>>
    /\ ranked = <<>>
    /\ report = None
    /\ scp_calls = 0
    /\ save_calls = 0
    /\ curl = "handle"
    /\ res = "ok"
    /\ perform_calls = 1
    /\ timezone_abbr = ""
    /\ premarket = FALSE
    /\ scp_status = "unset"
    /\ invocation = 1
    /\ url_len = 0

\* int premarket_time = is_premarket(est_time);
SessionFlag ==
    /\ pc = "parse"
    /\ premarket' = is_premarket(est_time)
    /\ pc' = "flagged"
    /\ UNCHANGED <<exit_status, exit_line, creds, list_file, cache_file, file0, universe,
                   g_cache, loaded, chunk, est_time, i, results, ranked, report,
                   scp_calls, save_calls, curl, res, perform_calls>>
    /\ UNCHANGED <<url_len, gmt_time, timezone_abbr, scp_status, last_saved, invocation>>

NextClock ==
    \/ Clock
    \/ SessionFlag

SpecClock == InitClock /\ [][NextClock]_vars

\* day x of the month of tm is a Sunday
IsSunday(tm, x) == (tm.tm_wday + x - tm.tm_mday + 35) % 7 = 0

\* the n-th Sunday of the month of tm
NthSunday(tm, n) ==
    CHOOSE x \in 1..31 :
        IsSunday(tm, x) /\ Cardinality({y \in 1..x : IsSunday(tm, y)}) = n

\* the clock has run
ClockDone == timezone_abbr # ""

\* hours between UTC and the Eastern time computed
OffsetTaken == (gmt_time.tm_hour + 24 - est_time[1]) % 24

\* the Sundays the code computes are the true ones
ComputedSundaysTrue ==
    /\ gmt_time.tm_mon = 2 =>
          /\ second_sunday(gmt_time) \in 8..14
          /\ second_sunday(gmt_time) = NthSunday(gmt_time, 2)
    /\ gmt_time.tm_mon = 10 =>
          /\ first_sunday(gmt_time) \in 1..7
          /\ first_sunday(gmt_time) = NthSunday(gmt_time, 1)

\* the offset is 4 hours (EDT) when InRange and 5 hours (EST) otherwise
OffsetFollows(InRange) ==
    /\ InRange => OffsetTaken = 4 /\ timezone_abbr = "EDT"
    /\ ~InRange => OffsetTaken = 5 /\ timezone_abbr = "EST"

(* C18, as claimed: daylight saving is set exactly for the dates from the  *)
(* second Sunday of March through the first Sunday of November, that       *)
(* Sunday included; the Sundays computed are the true ones.                *)
C18_DstThroughFirstSunday ==
    ClockDone =>
        /\ ComputedSundaysTrue
        /\ OffsetFollows(\/ gmt_time.tm_mon \in 3..9
                         \/ gmt_time.tm_mon = 2 /\ gmt_time.tm_mday >= NthSunday(gmt_time, 2)
                         \/ gmt_time.tm_mon = 10 /\ gmt_time.tm_mday <= NthSunday(gmt_time, 1))

(* C18, amended: daylight saving is set exactly for the dates from the     *)
(* second Sunday of March (included) up to the first Sunday of November    *)
(* (excluded): the offset is 4 hours (EDT) on those dates and 5 hours      *)
(* (EST) on all others, the first Sunday of November among them; the       *)
(* computed second Sunday of March is in 8..14, the computed first Sunday  *)
(* of November in 1..7, and both are the true Sundays of the month.        *)
C18_DstUntilFirstSunday ==
    ClockDone =>
        /\ ComputedSundaysTrue
        /\ OffsetFollows(\/ gmt_time.tm_mon \in 3..9
                         \/ gmt_time.tm_mon = 2 /\ gmt_time.tm_mday >= NthSunday(gmt_time, 2)
                         \/ gmt_time.tm_mon = 10 /\ gmt_time.tm_mday < NthSunday(gmt_time, 1))

\* the clock ran on the second Sunday of March, a 14th, and took EDT
C18_Witness ==
    /\ ClockDone
    /\ gmt_time.tm_mon = 2
    /\ gmt_time.tm_mday = 14
    /\ gmt_time.tm_wday = 0
    /\ timezone_abbr = "EDT"
    /\ est_time = <<8, 0>>

(* C19: is_premarket is true exactly when the Eastern time (hour, minute)  *)
(* lies in [04:00, 09:30), for every hour in 0..23 and minute in 0..59:    *)
(* true at 04:00 and 09:29, false at 03:59 and 09:30.                      *)
C19_PremarketWindow ==
    pc = "flagged" =>
        (premarket <=> (240 <= 60 * est_time[1] + est_time[2]
                        /\ 60 * est_time[1] + est_time[2] < 570))

\* the flag is set at 09:29 Eastern
C19_Witness ==
    /\ pc = "flagged"
    /\ est_time = <<9, 29>>
    /\ premarket

----------------------------------------------------------------------------
\* the snapshot the payload holds for the symbol takes no `continue`
ValidSymbol(s) ==
    /\ TradesAre(SnapOf(s), LAMBDA n : n >= 50)
    /\ OtherFieldsPresent(Val(SnapOf(s)))

\* the first row of the results for a symbol
FirstRow(s) == results[CHOOSE k \in Rows :
                          /\ results[k].symbol = s
                          /\ \A m \in 1..(k - 1) : results[m].symbol # s]

(* C20: a per-symbol skip never aborts the run.  For every payload that    *)
(* parses, the loop handles every position of the universe, those after a  *)
(* skipped symbol (one missing from the response included): the rows are   *)
(* as many as the valid symbols among the positions handled, and once the  *)
(* loop has begun the run ends only after the last symbol, with status 0.  *)
(* The row of a valid symbol is a function of its own snapshot, the        *)
(* session and its loaded cache entry: it is the same whatever happened to *)
(* the other symbols.                                                      *)
C20_SkipNeverAborts ==
    (chunk.kind = "json" /\ pc \in {"loop", "rank", "save", "done"}) =>
        /\ i <= Len(universe) + 1
        /\ Len(results) = Cardinality({k \in 1..(i - 1) : ValidSymbol(universe[k])})
        /\ \A k \in 1..(i - 1) :
              ValidSymbol(universe[k]) =>
                  /\ HasRow(universe[k])
                  /\ FirstRow(universe[k]) =
                        EmitRow(loaded, universe[k], Val(SnapOf(universe[k])), PremarketNow).row
        /\ (pc # "loop" /\ i > 1) => i > Len(universe)
        /\ (pc = "done" /\ i > 1) => exit_status = 0

\* the first symbol was missing from the response, the second, another
\* symbol, got its row, and the run ended
C20_Witness ==
    /\ LoopOver
    /\ pc = "done"
    /\ Len(universe) = 2
    /\ universe[1] # universe[2]
    /\ ~Has(SnapOf(universe[1]))
    /\ HasRow(universe[2])
    /\ ~HasRow(universe[1])
    /\ exit_status = 0

----------------------------------------------------------------------------
\* the three validation steps of the metric engine: a minute bar with a trade
\* count of at least 50, a latest-trade price and a current-day close, and
\* (pre-market or a previous-day close)
PassesValidation(s) ==
    /\ TradesAre(SnapOf(s), LAMBDA n : n >= 50)
    /\ Has(Val(SnapOf(s)).latestTrade)
    /\ Has(Val(Val(SnapOf(s)).latestTrade).p)
    /\ Has(Val(SnapOf(s)).dailyBar)
    /\ Has(Val(Val(SnapOf(s)).dailyBar).c)
    /\ \/ PremarketNow
       \/ /\ Has(Val(SnapOf(s)).prevDailyBar)
          /\ Has(Val(Val(SnapOf(s)).prevDailyBar).c)

(* C21: after the loop a symbol of the universe has a result row if and    *)
(* only if its snapshot passes the three validation steps; a missing       *)
(* latest-trade timestamp or minute-bar volume does not make a symbol that *)
(* passes them a skip.                                                     *)
C21_RowIffThreeSteps ==
    LoopOver =>
        \A s \in Range(universe) : HasRow(s) <=> PassesValidation(s)

----------------------------------------------------------------------------
(* C22: a run emits at most one result row per symbol, whatever list the   *)
(* symbol-list reader returned, a list with the same symbol on two lines   *)
(* included; no row is diffed against an entry written earlier in the      *)
(* same run.                                                               *)
C22_OneRowPerSymbol ==
    /\ \A k, m \in Rows : results[k].symbol = results[m].symbol => k = m
    /\ \A k \in Rows :
          LET prev == get_cached_values(loaded, results[k].symbol)
          IN results[k].trades_change = results[k].trades - prev.trades

----------------------------------------------------------------------------
(* C23: array bounds hold in every reachable state: g_cache_count is at    *)
(* most MAX_SYMBOLS after the load and after every update_cache, so every  *)
(* write to g_cache is below MAX_SYMBOLS; num_results is at most the       *)
(* number of symbols the loop has handled and so at most num_symbols, so   *)
(* every write to results is inside the array allocated.                   *)
C23_ArrayBounds ==
    /\ Len(g_cache) <= MAX_SYMBOLS
    /\ Len(loaded) <= MAX_SYMBOLS
    /\ Len(universe) <= MAX_SYMBOLS
    /\ Len(results) <= Len(universe)
    /\ Len(results) <= i - 1
    /\ i <= Len(universe) + 1

\* the load stopped at a full cache, every symbol of a full list got a row,
\* and the update for a symbol not in the full cache wrote nothing
C23_Witness ==
    /\ LoopOver
    /\ Len(MembersOf(file0)) > MAX_SYMBOLS
    /\ Len(g_cache) = MAX_SYMBOLS
    /\ Len(universe) = MaxUniverse
    /\ Len(results) = Len(universe)
    /\ \E k \in Rows : ~HasEntry(g_cache, results[k].symbol)

----------------------------------------------------------------------------
(* The request URL for lists of the length the symbol-list reader accepts *)

\* a list of this many symbols, fewer than the 15000 the reader accepts
UrlSymbolCount == 4366

\* tokens of the shortest and of the longest length the reader accepts
\* (strlen(token) < MAX_SYMBOL_LENGTH - 1)
UrlSymbols == {"A", "ABCDEFGHIJKLMN"}

\* the universe: one line, two, UrlSymbolCount - 1 or UrlSymbolCount lines,
\* each holding a token of the same length
UrlUniverses ==
    {[k \in 1..n |-> s] : n \in {1, 2, UrlSymbolCount - 1, UrlSymbolCount}, s \in UrlSymbols}

\* main() with the handle of curl_easy_init, before the URL is built
InitUrl ==
    /\ pc = "perform"
    /\ universe \in UrlUniverses
    /\ url_len = 0
    /\ curl = "handle"
    /\ i = 1
    /\ exit_status = -1
    /\ exit_line = 0
    /\ creds = TRUE
    /\ list_file = [exists |-> TRUE, lines |-> <<>>]
    /\ cache_file = MissingFile
    /\ file0 = MissingFile
    /\ last_saved = MissingFile
    /\ g_cache = <<>>
    /\ loaded = <<>>
    /\ chunk = NoPayload
    /\ est_time = <<0, 0>>
    /\ results = <<>>
    /\ ranked = <<>>
    /\ report = None
    /\ scp_calls = 0
    /\ save_calls = 0
    /\ res = "unset"
    /\ perform_calls = 0
    /\ gmt_time \in {Tm(6, 15, 3, 8, 0)}
    /\ timezone_abbr = ""
    /\ premarket = FALSE
    /\ scp_status = "unset"
    /\ invocation = 1

NextUrl == Perform

SpecUrl == InitUrl /\ [][NextUrl]_vars

(* C24: the request URL, the fixed prefix followed by the universe symbols *)
(* separated by commas, with its terminating NUL never exceeds the         *)
(* MAX_URL_LENGTH bytes allocated for it, for every universe the           *)
(* symbol-list reader accepts.                                             *)
C24_UrlFitsBuffer == url_len + 1 <= MAX_URL_LENGTH

----------------------------------------------------------------------------
(* The ranking of two rows over every trade count an int can hold *)

\* a complete snapshot with minuteBar.n = n (json_object_get_int yields an
\* int whatever the number in the payload)
RankSnap(n) == Snap(Trade(Some(1), Some(101)), MinBar(Some(n), Some(10)), Bar(Some(100)), None)

\* main() at the start of the per-symbol loop, pre-market, with two symbols
\* and no cache
InitRank ==
    /\ pc = "loop"
    /\ universe = <<"A", "B">>
    /\ chunk \in {JsonPayload([s \in {"A", "B"} |->
                                 Some(RankSnap(IF s = "A" THEN n1 ELSE n2))]) :
                     n1 \in INT_MIN..INT_MAX, n2 \in INT_MIN..INT_MAX}
    /\ i = 1
    /\ gmt_time \in {Tm(6, 15, 3, 8, 0)}
    /\ est_time = EasternTime(gmt_time)
    /\ timezone_abbr = TimezoneAbbr(gmt_time)
    /\ url_len = UrlLength(universe)
    /\ curl = "handle"
    /\ res = "ok"
    /\ perform_calls = 1
    /\ exit_status = -1
    /\ exit_line = 0
    /\ creds = TRUE
    /\ list_file = [exists |-> TRUE, lines |-> <<"A", "B">>]
    /\ cache_file = MissingFile
    /\ file0 = MissingFile
    /\ last_saved = MissingFile
    /\ g_cache = <<>>
    /\ loaded = <<>>
    /\ results = <<>>
    /\ ranked = <<>>
    /\ report = None
    /\ scp_calls = 0
    /\ save_calls = 0
    /\ premarket = FALSE
    /\ scp_status = "unset"
    /\ invocation = 1

NextRank ==
    \/ LoopStep
    \/ LoopEnd
    \/ RankAndReport

SpecRank == InitRank /\ [][NextRank]_vars

(* C25: every result row has trades in 50..INT_MAX, so for any two rows    *)
(* the subtraction b.trades - a.trades of the comparator stays within int  *)
(* (no overflow), and the sign of what the comparator returns agrees with  *)
(* the comparison of the two trade counts.                                 *)
C25_ComparatorNoOverflow ==
    \A k, m \in Rows :
        LET a == results[k]
            b == results[m]
        IN /\ a.trades \in 50..INT_MAX
           /\ (b.trades - a.trades) \in INT_MIN..INT_MAX
           /\ \A c \in cmp_stocks_by_trades(a, b) :
                 /\ c < 0 <=> b.trades < a.trades
                 /\ c = 0 <=> b.trades = a.trades
                 /\ c > 0 <=> b.trades > a.trades

\* rows with the smallest and the largest trade count were ranked, the
\* largest first
C25_Witness ==
    /\ pc = "save"
    /\ Len(results) = 2
    /\ results[1].trades = 50
    /\ results[2].trades = INT_MAX
    /\ ranked = <<results[2], results[1]>>

====
